---- MODULE Spec2Model ----
(***************************************************************************)
(* Model of twisted/internet/_win32handleinherit.py: enumeration of the   *)
(* system handle table, the process and type filters, and the clearing    *)
(* of the inheritance flag of the calling process's "File" handles.       *)
(*                                                                         *)
(* The operating system is the environment.  Its handle table is the      *)
(* variable `handles`; each of the four entry points the module calls     *)
(* (NtQuerySystemInformation, NtQueryObject, GetHandleInformation,        *)
(* SetHandleInformation) is one step, and each may fail.                  *)
(***************************************************************************)
EXTENDS Integers, Sequences, FiniteSets, TLC

\* ------------------------------------------------------------------ bounds

\* Handle table entries chosen freely (owner, type, flags).
MaxHandles == 3
\* Queries of the system table re-issued by one getSystemHandles call.
MaxRetries == 2

\* ------------------------------------------------------- program constants

STATUS_SUCCESS == "00000000"
STATUS_INFO_LENGTH_MISMATCH == "c0000004"
\* Any other status; the code tells it apart from the two above only.
STATUS_INVALID_HANDLE == "c0000008"

HANDLE_FLAG_INHERIT == 1
\* winbase.h's other handle flag (0x2), which the module never names.
HANDLE_FLAG_PROTECT_FROM_CLOSE == 2 * HANDLE_FLAG_INHERIT

DefaultBufferSize == 1000

\* offsetof(SYSTEM_HANDLE_INFORMATION, Handles) and sizeof(SYSTEM_HANDLE),
\* 32-bit layout of the declared structures.
HeaderSize == 4
RecordSize == 16

\* os.getpid() and the identifier of some other process.
MyPid == 7
OtherPid == MyPid + 2

TypeNames == {"File", "file", "Event"}
Flags == 0 .. 3

\* ------------------------------------------------------------------ helpers

RECURSIVE BitAnd(_, _)
BitAnd(a, b) ==
    IF a = 0 \/ b = 0 THEN 0
    ELSE (a % 2) * (b % 2) + 2 * BitAnd(a \div 2, b \div 2)

BitOr(a, b) == a + b - BitAnd(a, b)

BitClear(a, mask) == a - BitAnd(a, mask)

\* Bytes the system query needs for a table of n entries.
SizeFor(n) == HeaderSize + n * RecordSize

\* SYSTEM_HANDLE records whose fields are all zero: what a fresh buffer holds.
ZeroHandle == [ProcessId |-> 0, Handle |-> 0]

\* The SYSTEM_HANDLE the system reports for a table entry.
SystemHandleOf(e) == [ProcessId |-> e.ProcessId, Handle |-> e.Handle]

\* ------------------------------------------------------------- handle tables

\* Handle values are per process: the n-th handle of a process is 4 * n.
CountPid(s, i, pid) == Cardinality({j \in 1 .. i : s[j].ProcessId = pid})

MakeTable(s) ==
    [i \in 1 .. Len(s) |->
        [ProcessId |-> s[i].ProcessId,
         Handle |-> 4 * CountPid(s, i, s[i].ProcessId),
         TypeName |-> s[i].TypeName,
         Flags |-> s[i].Flags]]

\* Entries of the calling process: "File" handles with every flag word, and
\* handles of the other types with both flags set.
OwnEntries ==
    [ProcessId : {MyPid}, TypeName : {"File"}, Flags : Flags] \cup
    [ProcessId : {MyPid}, TypeName : TypeNames \ {"File"},
     Flags : {BitOr(HANDLE_FLAG_INHERIT, HANDLE_FLAG_PROTECT_FROM_CLOSE)}]
ForeignEntry ==
    [ProcessId |-> OtherPid, TypeName |-> "File",
     Flags |-> BitOr(HANDLE_FLAG_INHERIT, HANDLE_FLAG_PROTECT_FROM_CLOSE)]

Filler(n) == [i \in 1 .. n |-> ForeignEntry]

FreeEntries(S) == UNION {[1 .. n -> S] : n \in 0 .. MaxHandles}

\* Slots for SYSTEM_HANDLE records in a buffer of `size` bytes.
Capacity(size) ==
    IF size < HeaderSize THEN 0 ELSE (size - HeaderSize) \div RecordSize

\* Entries of other processes appended to a "large" table: as many as the
\* default buffer holds, so that one more entry makes it too small.
ExtraHandles == Capacity(DefaultBufferSize)

AllTables ==
    {MakeTable(s \o Filler(e)) :
        s \in FreeEntries(OwnEntries \cup {ForeignEntry}), e \in {0, ExtraHandles}}

\* Tables for the enumerator alone, which reads no type and no flag.
EnumEntries ==
    {[ProcessId |-> MyPid, TypeName |-> "File", Flags |-> HANDLE_FLAG_INHERIT],
     ForeignEntry}
EnumTables ==
    {MakeTable(s \o Filler(e)) :
        s \in FreeEntries(EnumEntries), e \in {0, ExtraHandles}}

\* Tables for the type filter alone.
FilterTables ==
    {MakeTable(s) : s \in FreeEntries(OwnEntries \cup {ForeignEntry})}

VARIABLES
    handles,            \* the system handle table: ProcessId, Handle, TypeName, Flags
    handles0,           \* the table when the current call began
    call,               \* the function the caller invoked
    pc,                 \* the OS call about to be made, or idle / done / error
    bufferSize,         \* getSystemHandles: size of the next buffer
    initialSize,        \* getSystemHandles: its bufferSize argument
    retries,            \* getSystemHandles: queries re-issued so far
    systemHandles,      \* records getSystemHandles yielded
    input,              \* records fed to filterSystemHandlesByTypeName
    typeName,           \* filterSystemHandlesByTypeName: its typeName argument
    k,                  \* position in input of the record being processed
    ObjectInformation,  \* type name held by the shared 1024-byte buffer
    out,                \* records filterSystemHandlesByTypeName yielded
    calls,              \* OS calls issued by the current call, in order
    prevSets            \* flag-set calls made by the call before this one if
                        \* it was a successful clearFileHandlesInheritance,
                        \* -1 if it was not

vars ==
    <<handles, handles0, call, pc, bufferSize, initialSize, retries,
      systemHandles, input, typeName, k, ObjectInformation, out, calls,
      prevSets>>

\* ---------------------------------------------------------- operating system

\* Index in the table of handle value h of the calling process, 0 if the
\* calling process has no such handle.
OwnIndex(h) ==
    IF \E i \in 1 .. Len(handles) :
           handles[i].ProcessId = MyPid /\ handles[i].Handle = h
    THEN CHOOSE i \in 1 .. Len(handles) :
           handles[i].ProcessId = MyPid /\ handles[i].Handle = h
    ELSE 0

Required == SizeFor(Len(handles))

\* Sizes the system may write to ReturnLength with "buffer too small": the
\* size needed, and sizes that are not (zero, the size just tried, one
\* record less, one record more).
ReportedSizes(size) ==
    {0, size, Required, Required + RecordSize} \cup
    (IF Required >= HeaderSize + RecordSize THEN {Required - RecordSize} ELSE {})

\* Results of NtQuerySystemInformation(SystemHandleInformation) on a buffer
\* of `size` bytes.
NtQuerySystemInformation(size) ==
    {[status |-> STATUS_INVALID_HANDLE, ReturnLength |-> 0]} \cup
    (IF size < Required
     THEN {[status |-> STATUS_INFO_LENGTH_MISMATCH, ReturnLength |-> n] :
              n \in ReportedSizes(size)}
     ELSE {[status |-> STATUS_SUCCESS, ReturnLength |-> Required]})

\* The buffer after a successful query: the table's records, then the
\* zeroes _ffi.new left in the slots the system did not write.
FilledBuffer(size) ==
    [i \in 1 .. Capacity(size) |->
        IF i <= Len(handles) THEN SystemHandleOf(handles[i]) ELSE ZeroHandle]

\* Statuses of NtQueryObject(h, ObjectTypeInformation).
NtQueryObject(h) ==
    IF OwnIndex(h) = 0 THEN {STATUS_INVALID_HANDLE}
    ELSE {STATUS_SUCCESS, STATUS_INFO_LENGTH_MISMATCH, STATUS_INVALID_HANDLE}

\* BOOL results of GetHandleInformation(h) and SetHandleInformation(h, ..).
HandleInformationResults(h) == IF OwnIndex(h) = 0 THEN {0} ELSE {0, 1}

\* Flags of a handle after SetHandleInformation(h, dwMask, dwFlags).
SetHandleInformation(flags, dwMask, dwFlags) ==
    BitOr(BitClear(flags, dwMask), BitAnd(dwFlags, dwMask))

Call(api, sh, mask, value, status, ok) ==
    [api |-> api, ProcessId |-> sh.ProcessId, Handle |-> sh.Handle,
     mask |-> mask, value |-> value, status |-> status, ok |-> ok]

\* --------------------------------------------------------------- the module

\* getSystemHandles, lines 172-179: what the loop does with a status.
QuerySystemOutcome(status) ==
    IF status = STATUS_INFO_LENGTH_MISMATCH THEN "retry"
    ELSE IF status # STATUS_SUCCESS THEN "raise"
    ELSE "break"

\* getSystemHandles, lines 173-174: the buffer size of the next attempt.
RetryBufferSize(size, neededSize) == neededSize

\* Faulty variant: every slot of the buffer is yielded.
WholeBuffer(buffer, HandleCount) == buffer

\* getSystemHandles, lines 181-183: the records yielded from the buffer.
YieldedHandles(buffer, HandleCount) == SubSeq(buffer, 1, HandleCount)

\* Faulty variant: the process filter lets every record through.
AllSystemHandles(shs, pid) == shs

filterSystemHandlesByPID(shs, pid) ==
    LET mine(sh) == sh.ProcessId = pid IN SelectSeq(shs, mine)

\* Faulty variant: "buffer too small" from the type query is not an error.
QueryObjectIgnoresMismatch(status) ==
    IF status = STATUS_INFO_LENGTH_MISMATCH THEN "compare"
    ELSE IF status # STATUS_SUCCESS THEN "raise"
    ELSE "compare"

\* filterSystemHandlesByTypeName, lines 225-228.
QueryObjectOutcome(status) ==
    IF status = STATUS_INFO_LENGTH_MISMATCH THEN "raise"
    ELSE IF status # STATUS_SUCCESS THEN "raise"
    ELSE "compare"

Lower(name) == IF name = "File" THEN "file" ELSE name

\* Faulty variant: type names are compared ignoring case.
TypeNameMatchesIgnoringCase(name, wanted) == Lower(name) = Lower(wanted)

\* filterSystemHandlesByTypeName, line 230.
TypeNameMatches(name, wanted) == name = wanted

handlesFromSystemHandles(sh) == sh.Handle

\* Faulty variant: every handle is taken to be inheritable.
AlwaysInheritable(lpdwFlags) == TRUE

\* isHandleInheritable, line 266.
isHandleInheritable(lpdwFlags) == BitAnd(lpdwFlags, HANDLE_FLAG_INHERIT) # 0

\* Faulty variants: a failed call is ignored.
GetInformationNeverRaises(status) == FALSE
SetInformationNeverRaises(status) == FALSE

\* isHandleInheritable, line 264, and clearHandleInheritance, line 282.
GetInformationRaises(status) == status = 0
SetInformationRaises(status) == status = 0

\* Faulty variants: the call changes every flag; the call sets the flag.
AllFlagsMask == BitOr(HANDLE_FLAG_INHERIT, HANDLE_FLAG_PROTECT_FROM_CLOSE)
SetInheritFlag == HANDLE_FLAG_INHERIT

\* clearHandleInheritance, lines 279-280: dwMask and dwFlags.
ClearMask == HANDLE_FLAG_INHERIT
ClearFlags == 0

Bool(status) == IF status = 0 THEN "0" ELSE "1"

IsSetCall(c) == c.api = "SetHandleInformation"
SetCalls == SelectSeq(calls, IsSetCall)

Stopped == pc \in {"idle", "done", "error"}

\* Where the consumer of the type filter goes after record j of `recs`.
NextRecord(recs, j) == IF j < Len(recs) THEN "NtQueryObject" ELSE "done"

Begin(fn, size, wanted) ==
    /\ Stopped
    /\ call' = fn
    /\ handles0' = handles
    /\ bufferSize' = size
    /\ initialSize' = size
    /\ retries' = 0
    /\ systemHandles' = <<>>
    /\ typeName' = wanted
    /\ ObjectInformation' = ""
    /\ out' = <<>>
    /\ calls' = <<>>
    /\ prevSets' = IF pc = "done" /\ call = "clearFileHandlesInheritance"
                   THEN Len(SetCalls)
                   ELSE -1
    /\ UNCHANGED handles

\* clearFileHandlesInheritance(): lines 293-296 build the generators; the
\* first OS call is made when the loop asks for the first handle.
Call_clearFileHandlesInheritance ==
    /\ Begin("clearFileHandlesInheritance", DefaultBufferSize, "File")
    /\ input' = <<>>
    /\ k' = 0
    /\ pc' = "NtQuerySystemInformation"

\* A caller draining getSystemHandles(bufferSize).
InitialSizes ==
    {0, HeaderSize, DefaultBufferSize} \cup
    {SizeFor(n) : n \in 1 .. MaxHandles + 1}

Call_getSystemHandles ==
    \E size \in InitialSizes :
        /\ Begin("getSystemHandles", size, "File")
        /\ input' = <<>>
        /\ k' = 0
        /\ pc' = "NtQuerySystemInformation"

\* A caller draining filterSystemHandlesByTypeName(systemHandles, typeName)
\* over the records of the table, or over those of its own process.
Call_filterSystemHandlesByTypeName ==
    \E wanted \in TypeNames, ownOnly \in BOOLEAN :
        LET all == [i \in 1 .. Len(handles) |-> SystemHandleOf(handles[i])]
            recs == IF ownOnly THEN filterSystemHandlesByPID(all, MyPid) ELSE all
        IN  /\ Begin("filterSystemHandlesByTypeName", 0, wanted)
            /\ input' = recs
            /\ k' = IF recs = <<>> THEN 0 ELSE 1
            /\ pc' = NextRecord(recs, 0)

\* One iteration of the loop of getSystemHandles, lines 159-179, and on
\* success lines 181-183 and the process filter that consumes them.
Step_NtQuerySystemInformation ==
    /\ pc = "NtQuerySystemInformation"
    /\ \E r \in NtQuerySystemInformation(bufferSize) :
        LET outcome == QuerySystemOutcome(r.status)
            shs == YieldedHandles(FilledBuffer(bufferSize), Len(handles))
            mine == filterSystemHandlesByPID(shs, MyPid)
        IN  /\ calls' = Append(calls,
                   Call("NtQuerySystemInformation", ZeroHandle, 0, 0, r.status,
                        r.status = STATUS_SUCCESS))
            /\ IF outcome = "retry"
               THEN /\ retries < MaxRetries
                    /\ bufferSize' = RetryBufferSize(bufferSize, r.ReturnLength)
                    /\ retries' = retries + 1
                    /\ UNCHANGED <<pc, systemHandles, input, k>>
               ELSE IF outcome = "raise"
               THEN /\ pc' = "error"
                    /\ UNCHANGED <<bufferSize, retries, systemHandles, input, k>>
               ELSE /\ systemHandles' = shs
                    /\ IF call = "getSystemHandles"
                       THEN /\ pc' = "done"
                            /\ UNCHANGED <<input, k>>
                       ELSE /\ input' = mine
                            /\ k' = IF mine = <<>> THEN 0 ELSE 1
                            /\ pc' = NextRecord(mine, 0)
                    /\ UNCHANGED <<bufferSize, retries>>
    /\ UNCHANGED <<handles, handles0, call, initialSize, typeName,
                   ObjectInformation, out, prevSets>>

\* One iteration of the loop of filterSystemHandlesByTypeName, lines 215-231.
Step_NtQueryObject ==
    /\ pc = "NtQueryObject"
    /\ LET sh == input[k]
           h == handlesFromSystemHandles(sh)
       IN \E status \in NtQueryObject(h) :
           LET written == IF status = STATUS_SUCCESS
                          THEN handles[OwnIndex(h)].TypeName
                          ELSE ObjectInformation
           IN  /\ calls' = Append(calls,
                      Call("NtQueryObject", sh, 0, 0, status,
                           status = STATUS_SUCCESS))
               /\ ObjectInformation' = written
               /\ IF QueryObjectOutcome(status) = "raise"
                  THEN /\ pc' = "error"
                       /\ UNCHANGED <<k, out>>
                  ELSE IF TypeNameMatches(written, typeName)
                  THEN /\ out' = Append(out, sh)
                       /\ IF call = "clearFileHandlesInheritance"
                          THEN pc' = "GetHandleInformation" /\ k' = k
                          ELSE pc' = NextRecord(input, k) /\ k' = k + 1
                  ELSE /\ pc' = NextRecord(input, k)
                       /\ k' = k + 1
                       /\ UNCHANGED out
    /\ UNCHANGED <<handles, handles0, call, bufferSize, initialSize, retries,
                   systemHandles, input, typeName, prevSets>>

\* isHandleInheritable(handle), lines 257-266, called at line 297.
Step_GetHandleInformation ==
    /\ pc = "GetHandleInformation"
    /\ LET sh == input[k]
           h == handlesFromSystemHandles(sh)
       IN \E status \in HandleInformationResults(h) :
           \* _ffi.new('LPDWORD') is zero until the system writes the flags
           LET lpdwFlags == IF status # 0 THEN handles[OwnIndex(h)].Flags ELSE 0
           IN
           /\ calls' = Append(calls,
                  Call("GetHandleInformation", sh, 0, 0, Bool(status),
                       status # 0))
           /\ IF GetInformationRaises(status)
              THEN pc' = "error" /\ k' = k
              ELSE IF isHandleInheritable(lpdwFlags)
              THEN pc' = "SetHandleInformation" /\ k' = k
              ELSE pc' = NextRecord(input, k) /\ k' = k + 1
    /\ UNCHANGED <<handles, handles0, call, bufferSize, initialSize, retries,
                   systemHandles, input, typeName, ObjectInformation, out,
                   prevSets>>

\* clearHandleInheritance(handle), lines 276-283, called at line 298.
Step_SetHandleInformation ==
    /\ pc = "SetHandleInformation"
    /\ LET sh == input[k]
           h == handlesFromSystemHandles(sh)
           i == OwnIndex(h)
       IN \E status \in HandleInformationResults(h) :
           /\ calls' = Append(calls,
                  Call("SetHandleInformation", sh, ClearMask, ClearFlags,
                       Bool(status), status # 0))
           /\ handles' =
                  IF status # 0
                  THEN [handles EXCEPT ![i].Flags =
                           SetHandleInformation(@, ClearMask, ClearFlags)]
                  ELSE handles
           /\ IF SetInformationRaises(status)
              THEN pc' = "error" /\ k' = k
              ELSE pc' = NextRecord(input, k) /\ k' = k + 1
    /\ UNCHANGED <<handles0, call, bufferSize, initialSize, retries,
                   systemHandles, input, typeName, ObjectInformation, out,
                   prevSets>>

InitWith(tables) ==
    /\ handles \in tables
    /\ handles0 = handles
    /\ call = "none"
    /\ pc = "idle"
    /\ bufferSize = 0
    /\ initialSize = 0
    /\ retries = 0
    /\ systemHandles = <<>>
    /\ input = <<>>
    /\ typeName = "File"
    /\ k = 0
    /\ ObjectInformation = ""
    /\ out = <<>>
    /\ calls = <<>>
    /\ prevSets = -1

\* The process-spawning caller: clearFileHandlesInheritance(), again and again.
Init == InitWith(AllTables)
Next ==
    \/ Call_clearFileHandlesInheritance
    \/ Step_NtQuerySystemInformation
    \/ Step_NtQueryObject
    \/ Step_GetHandleInformation
    \/ Step_SetHandleInformation
Spec == Init /\ [][Next]_vars

\* A caller of the enumerator alone.
InitEnum == InitWith(EnumTables)
NextEnum ==
    \/ Call_getSystemHandles
    \/ Step_NtQuerySystemInformation
SpecEnum == InitEnum /\ [][NextEnum]_vars

\* A caller of the type filter alone.
InitFilter == InitWith(FilterTables)
NextFilter ==
    \/ Call_filterSystemHandlesByTypeName
    \/ Step_NtQueryObject
SpecFilter == InitFilter /\ [][NextFilter]_vars

\* -------------------------------------------------------------------- claims

Inheritable(e) == BitAnd(e.Flags, HANDLE_FLAG_INHERIT) # 0
OwnFile(e) == e.ProcessId = MyPid /\ e.TypeName = "File"
Entries == 1 .. Len(handles0)

Clearing == call = "clearFileHandlesInheritance"
ClearReturned == Clearing /\ pc = "done"

\* Flag-set calls of the current call that named entry i of the table.
SetCallsFor(i) ==
    {j \in 1 .. Len(calls) :
        /\ IsSetCall(calls[j])
        /\ calls[j].ProcessId = handles0[i].ProcessId
        /\ calls[j].Handle = handles0[i].Handle}

C2_OneSetCallPerInheritableFile ==
    ClearReturned =>
        /\ \A i \in Entries :
               Cardinality(SetCallsFor(i)) =
                   IF OwnFile(handles0[i]) /\ Inheritable(handles0[i])
                   THEN 1 ELSE 0
        /\ Len(SetCalls) =
               Cardinality({i \in Entries :
                   OwnFile(handles0[i]) /\ Inheritable(handles0[i])})

\* The spec's example: two "File" handles of the process, one inheritable and
\* one not, at least three handles of other processes, one flag-set call.
C2_Witness ==
    /\ ClearReturned
    /\ Len(SetCalls) = 1
    /\ \E i, j \in Entries :
           /\ OwnFile(handles0[i]) /\ Inheritable(handles0[i])
           /\ OwnFile(handles0[j]) /\ ~Inheritable(handles0[j])
           /\ SetCalls[1].Handle = handles0[i].Handle
    /\ Cardinality({i \in Entries : handles0[i].ProcessId # MyPid}) >= 3
    /\ Cardinality({i \in Entries : handles0[i].ProcessId = MyPid}) = 2

\* C3: a clearFileHandlesInheritance() that directly follows a successful one
\* issues no flag-set call and leaves every handle's flags as it found them.
C3_SecondCallSetsNothing ==
    Clearing /\ prevSets >= 0 => SetCalls = <<>> /\ handles = handles0

\* The second call returned, after a first call that cleared two handles.
C3_Witness == ClearReturned /\ prevSets >= 2

\* C5: every flag-query and flag-set call, in successful and failing runs,
\* is made for a record whose owning process is the caller's.
C5_OnlyOwnHandlesQueriedOrSet ==
    \A j \in 1 .. Len(calls) :
        calls[j].api \in {"GetHandleInformation", "SetHandleInformation"}
            => calls[j].ProcessId = MyPid

\* A handle of the process was queried and set while another process holds a
\* handle of the same value that is an inheritable "File" too.
C5_Witness ==
    /\ Clearing
    /\ \E j \in 1 .. Len(calls) :
           /\ IsSetCall(calls[j])
           /\ \E i \in Entries :
                  /\ handles0[i].ProcessId # MyPid
                  /\ handles0[i].Handle = calls[j].Handle
                  /\ Inheritable(handles0[i])

\* C10: clearFileHandlesInheritance() changes only the inheritance bit of
\* "File" handles of the current process: every flag-set call has mask
\* HANDLE_FLAG_INHERIT and value 0, and at any point of a run, successful or
\* failing, the table has the same entries, with the same other flag bits.
C10_OnlyInheritBitOfOwnFiles ==
    Clearing =>
        /\ Len(handles) = Len(handles0)
        /\ \A i \in Entries :
               \/ handles[i] = handles0[i]
               \/ /\ OwnFile(handles0[i])
                  /\ handles[i] =
                         [handles0[i] EXCEPT
                             !.Flags = BitClear(@, HANDLE_FLAG_INHERIT)]
        /\ \A j \in 1 .. Len(calls) :
               IsSetCall(calls[j]) =>
                   calls[j].mask = HANDLE_FLAG_INHERIT /\ calls[j].value = 0

\* A handle with both flags set has lost the inheritance bit only, next to a
\* handle of another type with both flags set.
C10_Witness ==
    /\ Clearing
    /\ \E i, j \in Entries :
           /\ OwnFile(handles0[i])
           /\ handles0[i].Flags = BitOr(HANDLE_FLAG_INHERIT, HANDLE_FLAG_PROTECT_FROM_CLOSE)
           /\ handles[i].Flags = HANDLE_FLAG_PROTECT_FROM_CLOSE
           /\ handles0[j].ProcessId = MyPid
           /\ handles0[j].TypeName = "Event"
           /\ Inheritable(handles0[j])

\* A failed call that is not the retried "buffer too small" of the system query.
Fatal(c) ==
    /\ ~c.ok
    /\ ~(c.api = "NtQuerySystemInformation"
         /\ c.status = STATUS_INFO_LENGTH_MISMATCH)

\* C4: a fatal status of any OS call ends clearFileHandlesInheritance() in an
\* error there: the failed call is the last one issued, so none follows for
\* that handle or a later one, and every handle whose flag-set call succeeded
\* before it still has the inheritance bit clear.
C4_FatalStatusStopsTheRun ==
    Clearing =>
        /\ \A j \in 1 .. Len(calls) :
               Fatal(calls[j]) => j = Len(calls) /\ pc = "error"
        /\ pc = "error" => calls # <<>> /\ Fatal(calls[Len(calls)])
        /\ \A j \in 1 .. Len(calls) :
               IsSetCall(calls[j]) /\ calls[j].ok
                   => ~Inheritable(handles[OwnIndex(calls[j].Handle)])
        /\ \A j \in 1 .. Len(calls) :
               calls[j].api # "NtQuerySystemInformation"
                   => \E m \in 1 .. Len(input) :
                          /\ m <= k
                          /\ input[m].Handle = calls[j].Handle
                          /\ input[m].ProcessId = calls[j].ProcessId

\* A flag query failed after an earlier handle was cleared, with a handle of
\* the process still to come.
C4_Witness ==
    /\ Clearing
    /\ pc = "error"
    /\ calls[Len(calls)].api = "GetHandleInformation"
    /\ SetCalls # <<>>
    /\ k < Len(input)
    /\ \E i \in Entries :
           /\ handles0[i].Handle = input[Len(input)].Handle
           /\ OwnFile(handles0[i])
           /\ Inheritable(handles[i])

\* C7: the one failed call that is not an error is "buffer too small" from
\* the system query, and the system query is issued again after it; every
\* other failed call, "buffer too small" from the type query included, is
\* the last call of the run, which ends in error; the type query is issued at
\* most once per handle.
C7_OnlyTheSystemQueryIsRetried ==
    Clearing =>
        /\ \A j \in 1 .. Len(calls) :
               ~calls[j].ok =>
                   IF calls[j].api = "NtQuerySystemInformation"
                      /\ calls[j].status = STATUS_INFO_LENGTH_MISMATCH
                   THEN IF j < Len(calls)
                        THEN calls[j + 1].api = "NtQuerySystemInformation"
                        ELSE pc = "NtQuerySystemInformation"
                   ELSE j = Len(calls) /\ pc = "error"
        /\ \A i \in 1 .. Len(calls) :
               calls[i].api = "NtQueryObject" =>
                   \A j \in 1 .. i - 1 :
                       calls[j].api = "NtQueryObject"
                           => calls[j].Handle # calls[i].Handle

\* The system query was retried, then the type query of the second handle
\* reported "buffer too small" and the run ended in error.
C7_Witness ==
    /\ Clearing
    /\ pc = "error"
    /\ retries > 0
    /\ k = 2
    /\ calls[Len(calls)].api = "NtQueryObject"
    /\ calls[Len(calls)].status = STATUS_INFO_LENGTH_MISMATCH

\* C6: whatever its initial bufferSize, a getSystemHandles that completes has
\* yielded the records of the table, all of them and no other slot of the
\* buffer, in the table's order; it queried again if and only if the initial
\* size was smaller than the size required.
C6_YieldsTheTableForEveryBufferSize ==
    call = "getSystemHandles" /\ pc = "done" =>
        /\ Len(systemHandles) = Len(handles)
        /\ \A i \in 1 .. Len(handles) :
               systemHandles[i] = SystemHandleOf(handles[i])
        /\ (initialSize < Required) = (retries > 0)

\* An initial buffer too small for a table of several entries, then a buffer
\* with more slots than the table has entries.
C6_Witness ==
    /\ call = "getSystemHandles"
    /\ pc = "done"
    /\ Len(handles) >= 2
    /\ initialSize < Required
    /\ Capacity(bufferSize) > Len(handles)

\* C8: a filterSystemHandlesByTypeName whose type queries all succeed yields
\* the input records whose own queried type name is typeName, compared
\* exactly, in input order, and changes no handle.
QueriedTypeIs(sh) == handles[OwnIndex(sh.Handle)].TypeName = typeName

C8_YieldsExactlyTheMatchingRecords ==
    call = "filterSystemHandlesByTypeName" /\ pc = "done" =>
        /\ out = SelectSeq(input, QueriedTypeIs)
        /\ handles = handles0

\* One record matches, one differs from typeName by case only, one has
\* another type.
C8_Witness ==
    /\ call = "filterSystemHandlesByTypeName"
    /\ pc = "done"
    /\ Len(out) = 1
    /\ Len(input) = 3
    /\ \E m \in 1 .. Len(input) :
           /\ ~QueriedTypeIs(input[m])
           /\ Lower(handles[OwnIndex(input[m].Handle)].TypeName) = Lower(typeName)

\* C9: each retry of getSystemHandles uses a buffer strictly larger than the
\* attempt before it.
C9_RetryGrowsTheBuffer ==
    [][pc = "NtQuerySystemInformation" /\ retries' = retries + 1
           => bufferSize' > bufferSize]_vars

====
